---- MODULE Spec2Model ----
(***************************************************************************)
(* State-machine model of cameraCalibrationWithUndistortion.cpp: main()    *)
(* with its argument loop, calibrateCamera(), saveCalibrationResultsTo-    *)
(* JSON() and showUndistortedImage().                                      *)
(*                                                                         *)
(* The OpenCV primitives are the environment.  What imread and             *)
(* findChessboardCorners give for a file is what the file holds, an input  *)
(* fixed at start-up; what calibrateCamera hands back is drawn from small  *)
(* sets.  Pixel coordinates are integers; reprojection errors are          *)
(* fixed-point numbers in units of 1/ErrScale pixel, divisions round down. *)
(***************************************************************************)
EXTENDS Integers, Sequences, FiniteSets, TLC

\* ---- bounds of the model ------------------------------------------------
MaxFiles  == 4      \* files the image directory may hold
MaxBoard  == 2      \* checkerboard width, and its larger height
MaxPose   == 1      \* largest translation component of a solved pose
ErrScale  == 10     \* fixed-point resolution of an error value
MaxDim    == 3      \* largest checkerboard width / height of SpecBoards

\* ---- program constants --------------------------------------------------
\* Glob patterns, in the order calibrateCamera walks them.
Patterns == <<"jpg", "jpeg", "png", "bmp", "tiff">>

\* Exit status of a process ended by std::terminate (uncaught exception).
AbortStatus == 134

\* The least value of int.
IntMin == -214748364 * 10 - 8

\* int checkerboardWidth = 7; int checkerboardHeight = 10;
DefaultWidth == 7

DefaultHeight == 10

\* ---- the argument loop -----------------------------------------------------
\* std::stoi(str) is strtol(str, &end, 10) narrowed to int: leading white
\* space is skipped, one sign is taken, and the longest run of decimal digits
\* that follows is converted; what comes after the digits is ignored.  It
\* throws std::invalid_argument when there is no digit to convert and
\* std::out_of_range when the number does not fit an int.
\* The characters isspace accepts: space, \t, \n, \v, \f, \r.  The vertical
\* tab (character 11) has no escape and stands in the string as itself.
VerticalTab == ""

WhiteSpace == {" ", "\t", "\n", VerticalTab, "\f", "\r"}

DecimalDigits == <<"0", "1", "2", "3", "4", "5", "6", "7", "8", "9">>

CharAt(s, k) == SubSeq(s, k, k)

IsDigit(c) == \E d \in 1..Len(DecimalDigits) : DecimalDigits[d] = c

DigitOf(c) == (CHOOSE d \in 1..Len(DecimalDigits) : DecimalDigits[d] = c) - 1

\* First position of s at or after k that holds no white space.
RECURSIVE SkipSpace(_, _)
SkipSpace(s, k) ==
    IF k <= Len(s) /\ CharAt(s, k) \in WhiteSpace THEN SkipSpace(s, k + 1) ELSE k

\* The digits of s from position k on.  The number is accumulated as its
\* negative (acc.n <= 0), so that every int, IntMin included, has a value;
\* acc.over is set once the magnitude exceeds that of IntMin.
RECURSIVE DigitsFrom(_, _, _)
DigitsFrom(s, k, acc) ==
    IF k > Len(s) \/ ~IsDigit(CharAt(s, k)) THEN acc
    ELSE LET d == DigitOf(CharAt(s, k))
             fits == /\ ~acc.over
                     /\ \/ acc.n > IntMin \div 10 + 1
                        \/ acc.n = IntMin \div 10 + 1 /\ d <= 8
         IN  DigitsFrom(s, k + 1,
                        [n |-> IF fits THEN acc.n * 10 - d ELSE 0,
                         over |-> ~fits, any |-> TRUE])

\* What std::stoi does with s: threw is "no" (value holds the result),
\* "invalid_argument" or "out_of_range".
StoIResult(s) ==
    LET k == SkipSpace(s, 1)
        signed == k <= Len(s) /\ CharAt(s, k) \in {"+", "-"}
        negative == signed /\ CharAt(s, k) = "-"
        acc == DigitsFrom(s, IF signed THEN k + 1 ELSE k,
                          [n |-> 0, over |-> FALSE, any |-> FALSE])
    IN  IF ~acc.any THEN [threw |-> "invalid_argument", value |-> 0]
        ELSE IF acc.over \/ (~negative /\ acc.n = IntMin)
        THEN [threw |-> "out_of_range", value |-> 0]
        ELSE [threw |-> "no", value |-> IF negative THEN acc.n ELSE 0 - acc.n]

StoIThrows(s) == StoIResult(s).threw # "no"

StoI(s) == StoIResult(s).value

\* main's locals before the loop (lines 272-276).  end: "ok" the loop ran to
\* argc, "help" return 0, "unknown" return 1, "badnum" std::stoi threw.
ArgDefaults ==
    [end |-> "ok", showDisplay |-> TRUE,
     width |-> DefaultWidth, height |-> DefaultHeight]

\* main, lines 279-300: the loop over argv[1..], from position i.
RECURSIVE ParseFrom(_, _, _)
ParseFrom(argv, i, st) ==
    IF i > Len(argv) THEN st
    ELSE LET arg == argv[i]
             hasValue == i + 1 <= Len(argv)
         IN  IF arg \in {"-h", "--help"}
             THEN [st EXCEPT !.end = "help"]
             ELSE IF arg \in {"-i", "--image_dir"} /\ hasValue
             THEN ParseFrom(argv, i + 2, st)
             ELSE IF arg \in {"-o", "--output_file"} /\ hasValue
             THEN ParseFrom(argv, i + 2, st)
             ELSE IF arg \in {"-cw", "--checkerboard_width"} /\ hasValue
             THEN IF StoIThrows(argv[i + 1])
                  THEN [st EXCEPT !.end = "badnum"]
                  ELSE ParseFrom(argv, i + 2,
                                 [st EXCEPT !.width = StoI(argv[i + 1])])
             ELSE IF arg \in {"-ch", "--checkerboard_height"} /\ hasValue
             THEN IF StoIThrows(argv[i + 1])
                  THEN [st EXCEPT !.end = "badnum"]
                  ELSE ParseFrom(argv, i + 2,
                                 [st EXCEPT !.height = StoI(argv[i + 1])])
             ELSE IF arg = "--no-display"
             THEN ParseFrom(argv, i + 1, [st EXCEPT !.showDisplay = FALSE])
             ELSE [st EXCEPT !.end = "unknown"]

ParseArgv(argv) == ParseFrom(argv, 1, ArgDefaults)

\* Command lines that end inside the argument loop.
EndingLines ==
    {<<"-h">>, <<"-i", "images", "-o", "out.json", "--help">>, <<"--bogus">>,
     <<"-i", "images", "-cw">>, <<"-cw", "abc">>, <<"-ch", "x">>,
     <<"-cw", "-">>, <<"-ch", "99999999999">>}

\* Command lines that ask for a w x h board, with or without the preview.
BoardLine(w, h, display) ==
    <<"-i", "images", "-cw", ToString(w), "-ch", ToString(h)>>
    \o (IF display THEN <<>> ELSE <<"--no-display">>)

\* ---- the environment's universe -----------------------------------------
\* File n of the universe carries the n-th extension of this list (cyclically);
\* "txt" and "gif" match no pattern.
ExtCycle == <<"png", "jpg", "txt", "jpg", "gif", "bmp", "jpeg", "tiff">>

ExtOfName(n) == ExtCycle[((n - 1) % Len(ExtCycle)) + 1]

FileUniverse == {[name |-> n, ext |-> ExtOfName(n)] : n \in 1..MaxFiles}

SmallImage == [width |-> 4, height |-> 3]

LargeImage == [width |-> 8, height |-> 6]

ImageSizes == {SmallImage, LargeImage}

\* Where a detected corner grid may sit in its image (pixel offset).
CornerShifts == {0, 1}

\* The output path names no entry of the image directory.
NoFile == [name |-> 0, ext |-> "none"]

\* cv::Size() default-constructs to 0x0.
ZeroSize == [width |-> 0, height |-> 0]

\* What a file of the directory holds, as the program gets to see it:
\* cv::imread gives an empty Mat (readable = FALSE) or an image of some size,
\* and cv::findChessboardCorners finds the board in that image, shifted by
\* `shift` pixels, or does not.
Unreadable == [readable |-> FALSE, size |-> ZeroSize, found |-> FALSE, shift |-> 0]

NoBoard(sz) == [readable |-> TRUE, size |-> sz, found |-> FALSE, shift |-> 0]

Board(sz, c) == [readable |-> TRUE, size |-> sz, found |-> TRUE, shift |-> c]

FileContents ==
    {Unreadable} \cup {NoBoard(sz) : sz \in ImageSizes}
    \cup {Board(sz, c) : sz \in ImageSizes, c \in CornerShifts}

\* The entries of a directory that some pattern matches: the only ones the
\* program ever reads.
ImageFiles(dir) == {f \in dir : \E p \in 1..Len(Patterns) : f.ext = Patterns[p]}

\* ---- pure helpers -------------------------------------------------------
\* cv::glob(dir + "/*." + ext): the matching files, sorted by name.
RECURSIVE SortByName(_)
SortByName(S) ==
    IF S = {} THEN <<>>
    ELSE LET m == CHOOSE f \in S : \A g \in S : f.name <= g.name
         IN  <<m>> \o SortByName(S \ {m})

Glob(files, ext) == SortByName({f \in files : f.ext = ext})

\* The pattern loop: images.insert(images.end(), temp.begin(), temp.end()).
RECURSIVE GlobFrom(_, _)
GlobFrom(files, p) ==
    IF p > Len(Patterns) THEN <<>>
    ELSE Glob(files, Patterns[p]) \o GlobFrom(files, p + 1)

GlobAll(files) == GlobFrom(files, 1)

\* The nested loops that fill objp: for i < height, for j < width,
\* push_back(Point3f(j, i, 0)).
RECURSIVE ObjpSwapped(_, _, _, _)
ObjpSwapped(i, j, w, h) ==
    IF i >= h THEN <<>>
    ELSE IF j >= w THEN ObjpSwapped(i + 1, 0, w, h)
    ELSE <<(<<i, j, 0>>)>> \o ObjpSwapped(i, j + 1, w, h)

RECURSIVE ObjpFrom(_, _, _, _)
ObjpFrom(i, j, w, h) ==
    IF i >= h THEN <<>>
    ELSE IF j >= w THEN ObjpFrom(i + 1, 0, w, h)
    ELSE <<(<<j, i, 0>>)>> \o ObjpFrom(i, j + 1, w, h)

BuildObjp(size) == ObjpFrom(0, 0, size.width, size.height)

\* What findChessboardCorners + cornerSubPix return for a found board: one
\* pixel point per object point, in grid order; c is where the board sits.
Corners(objs, c) == [k \in 1..Len(objs) |-> <<objs[k][1] + c, objs[k][2]>>]

\* cv::projectPoints through a pose (rvec, tvec).
ProjectPoints(objs, rvec, tvec) ==
    [k \in 1..Len(objs) |-> <<objs[k][1] + tvec, objs[k][2] + rvec>>]

ISqrt(n) == CHOOSE r \in 0..n : r * r <= n /\ n < (r + 1) * (r + 1)

RECURSIVE SumSqFrom(_, _, _)
SumSqFrom(a, b, k) ==
    IF k > Len(a) THEN 0
    ELSE (a[k][1] - b[k][1]) * (a[k][1] - b[k][1])
       + (a[k][2] - b[k][2]) * (a[k][2] - b[k][2])
       + SumSqFrom(a, b, k + 1)

\* cv::norm(a, b, NORM_L2), in units of 1/ErrScale pixel.
NormL2(a, b) == ISqrt(ErrScale * ErrScale * SumSqFrom(a, b, 1))

\* The double that is not a number (0.0 / 0); every other error value of the
\* model is >= 0.
NaN == -1

\* double error = cv::norm(imgpoints[i], imgpoints2, NORM_L2) / imgpoints2.size();
\* With no point at all this is 0.0 / 0.
PerImageError(obs, objs, rvec, tvec) ==
    LET imgpoints2 == ProjectPoints(objs, rvec, tvec)
    IN  IF Len(imgpoints2) = 0 THEN NaN
        ELSE NormL2(obs, imgpoints2) \div Len(imgpoints2)

\* totalError += error;
AccumulateOverwrite(total, error) == error

Accumulate(total, error) ==
    IF total = NaN \/ error = NaN THEN NaN ELSE total + error

\* results.meanReprojectionError = totalError / objpoints.size();
MeanError(total, n) == IF total = NaN THEN NaN ELSE total \div n

\* results.success = cv::calibrateCamera(...): the double RMS converted to bool.
RmsToBool(rms) == rms # 0

\* if (objpoints.empty() || imgpoints.empty()) return results;
NoGuard(objs, imgs) == TRUE

HasObservations(objs, imgs) == ~(Len(objs) = 0 \/ Len(imgs) = 0)

\* `continue` after an unreadable image: the loop goes on with the next index.
BreakLoop(i, n) == n

ContinueLoop(i, n) == i + 1

\* return results.success ? 0 : 1;
ExitCode(success) == IF success THEN 0 ELSE 1

\* saveCalibrationResultsToJSON takes results by const reference and returns
\* void: whether the file opened does not reach results.success.
SuccessNeedsFile(success, opened) == success /\ opened

SuccessAfterSave(success, opened) == success

\* if (showDisplay) showUndistortedImage(results, imageDir);
PreviewAlways(flag) == TRUE

PreviewWanted(flag) == flag

\* showUndistortedImage, lines 237-241: cv::imread(images[0]) of the preview's
\* own enumeration.  The JSON artifact is no image; any other file reads as
\* it did in the detection loop.
PreviewReadable(first, written, held) ==
    /\ first # written
    /\ first \in DOMAIN held
    /\ held[first].readable

VARIABLES
    argv,             \* argv[1..argc-1]
    pc,               \* where main / calibrateCamera stands
    dirState,         \* imageDir at start-up: "exists", "creatable",
                      \* "uncreatable", or "error" (it cannot be examined)
    files,            \* entries of the image directory
    content,          \* what each image file of the directory holds at start-up
    showDisplay,      \* cleared by --no-display
    checkerboardSize, \* -cw / -ch
    objp,             \* the object-point template
    images,           \* enumerated image paths
    idx,              \* loop index i of the detection loop
    imageSize,
    imageSizeSet,
    objpoints,
    imgpoints,
    results,          \* CalibrationResults
    totalError,
    evalIdx,          \* loop index i of the error loop
    exitStatus,       \* meaningful once pc = "done"
    saveCalled,       \* saveCalibrationResultsToJSON was entered
    artifactWritten,  \* the output file was opened and written
    previewCalled,    \* showUndistortedImage was entered
    outcome,          \* history: per processed image, what happened to it
    obsSrc,           \* history: per observation, its image index, size, corners
    solver,           \* history: the call to cv::calibrateCamera
    dirCreated,       \* history: main created the image directory
    keyPressed,       \* history: cv::waitKey(0) returned
    artifact,         \* history: the directory entry the artifact was written to
    argsEnd,          \* history: how the argument loop ended ("none" before it)
    calibrateCalled   \* history: calibrateCamera was entered

vars == <<argv, pc, dirState, files, content, showDisplay, checkerboardSize, objp, images, idx,
          imageSize, imageSizeSet, objpoints, imgpoints, results, totalError,
          evalIdx, exitStatus, saveCalled, artifactWritten, previewCalled,
          outcome, obsSrc, solver, dirCreated, keyPressed, artifact, argsEnd,
          calibrateCalled>>

\* std::filesystem::exists(imageDir) returned true.
dirExists == dirState = "exists"

NoSolver == [calls |-> 0, atIdx |-> 0, nObs |-> 0, imageSize |-> ZeroSize,
             outcome |-> "none", converged |-> FALSE, rms |-> 0]

\* CalibrationResults as calibrateCamera initialises it (lines 94-98).
InitResults(size) ==
    [rvecs |-> <<>>, tvecs |-> <<>>, success |-> FALSE, imageSize |-> ZeroSize,
     checkerboardSize |-> size, numImagesUsed |-> 0, meanReprojectionError |-> 0]

\* The first two files of the universe: the directories of the runs on
\* boards of more than one row.
BoardFiles == {f \in FileUniverse : f.name <= 2}

\* Command lines with a two-digit -cw / -ch value: the README's example and
\* a 12 x 3 board without the preview.
TwoDigitLines ==
    {<<"-i", "images", "-o", "out.json", "-cw", "7", "-ch", "10">>,
     <<"-i", "images", "-cw", "12", "-ch", "3", "--no-display">>}

\* The command lines of Spec: boards of width MaxBoard, with the preview and,
\* for the one-row board, without it; the two-digit lines.  The one-row
\* boards run on every directory, the other boards on the directories of
\* BoardFiles.  A directory holds at most one entry that no pattern matches.
ArgLines ==
    {BoardLine(MaxBoard, h, TRUE) : h \in {1, MaxBoard}}
    \cup {BoardLine(MaxBoard, 1, FALSE)}
    \cup TwoDigitLines
    \cup EndingLines

Init ==
    /\ argv \in ArgLines
    /\ pc = "args"
    /\ dirState \in {"exists", "creatable", "uncreatable", "error"}
    /\ files \in SUBSET FileUniverse
    /\ (dirState # "exists" => files = {})
    /\ content \in [ImageFiles(files) -> FileContents]
    /\ Cardinality({f \in files : \A p \in 1..Len(Patterns) : f.ext # Patterns[p]}) <= 1
    /\ (argv \in TwoDigitLines \cup {BoardLine(MaxBoard, MaxBoard, TRUE)}
          => files \subseteq BoardFiles)
    /\ showDisplay = ArgDefaults.showDisplay
    /\ checkerboardSize = [width |-> ArgDefaults.width, height |-> ArgDefaults.height]
    /\ objp = <<>>
    /\ images = <<>>
    /\ idx = 0
    /\ imageSize = ZeroSize
    /\ imageSizeSet = FALSE
    /\ objpoints = <<>>
    /\ imgpoints = <<>>
    /\ results = InitResults(ZeroSize)
    /\ totalError = 0
    /\ evalIdx = 0
    /\ exitStatus = 0
    /\ saveCalled = FALSE
    /\ artifactWritten = FALSE
    /\ previewCalled = FALSE
    /\ outcome = <<>>
    /\ obsSrc = <<>>
    /\ solver = NoSolver
    /\ dirCreated = FALSE
    /\ keyPressed = FALSE
    /\ artifact = NoFile
    /\ argsEnd = "none"
    /\ calibrateCalled = FALSE

Exit(status) == pc' = "done" /\ exitStatus' = status

\* main, lines 272-300: the argument loop.  It returns 0 for the usage request,
\* 1 for an unknown or value-less option, and std::stoi's exception ends the
\* process; otherwise the locals hold what the command line asked for.
ParseArgs ==
    /\ pc = "args"
    /\ LET st == ParseArgv(argv)
       IN  /\ argsEnd' = st.end
           /\ showDisplay' = st.showDisplay
           /\ checkerboardSize' = [width |-> st.width, height |-> st.height]
           /\ IF st.end = "help" THEN Exit(0)
              ELSE IF st.end = "unknown" THEN Exit(1)
              ELSE IF st.end = "badnum" THEN Exit(AbortStatus)
              ELSE pc' = "main" /\ UNCHANGED exitStatus
    /\ UNCHANGED <<argv, dirState, content, files, objp, images, idx, imageSize,
                   imageSizeSet, objpoints, imgpoints, results, totalError,
                   evalIdx, saveCalled, artifactWritten, previewCalled, outcome,
                   obsSrc, solver, dirCreated, keyPressed, artifact,
                   calibrateCalled>>

\* main, lines 304-312: create_directories returned (exit 0) or threw (exit 1).
CreateDirFallThrough(created) ==
    IF created THEN [pc |-> "calibrate", status |-> 0]
    ELSE [pc |-> "done", status |-> 1]

CreateDirResult(created) ==
    IF created THEN [pc |-> "done", status |-> 0]
    ELSE [pc |-> "done", status |-> 1]

\* main, lines 302-313: the directory check.  std::filesystem::exists stands
\* outside the try block: when it throws, the process is terminated.
CheckDir ==
    /\ pc = "main"
    /\ IF dirState = "error"
       THEN Exit(AbortStatus) /\ UNCHANGED dirCreated
       ELSE IF dirExists
       THEN /\ pc' = "calibrate"
            /\ UNCHANGED <<dirCreated, exitStatus>>
       ELSE LET created == dirState = "creatable"
            IN  /\ dirCreated' = created
                /\ pc' = CreateDirResult(created).pc
                /\ exitStatus' = CreateDirResult(created).status
    /\ UNCHANGED <<argv, dirState, content, files, showDisplay, checkerboardSize, objp,
                   images, idx, imageSize, imageSizeSet, objpoints, imgpoints,
                   results, totalError, evalIdx, saveCalled, artifactWritten,
                   previewCalled, outcome, obsSrc, solver, keyPressed, artifact, argsEnd,
                   calibrateCalled>>

\* calibrateCamera, lines 89-128: result defaults, template, enumeration.
StartCalibration ==
    /\ pc = "calibrate"
    /\ calibrateCalled' = TRUE
    /\ results' = InitResults(checkerboardSize)
    /\ objp' = BuildObjp(checkerboardSize)
    /\ images' = GlobAll(files)
    /\ pc' = IF Len(GlobAll(files)) = 0 THEN "returned" ELSE "loop"
    /\ UNCHANGED <<argv, dirState, content, files, showDisplay, checkerboardSize, idx,
                   imageSize, imageSizeSet, objpoints, imgpoints, totalError,
                   evalIdx, exitStatus, saveCalled, artifactWritten,
                   previewCalled, outcome, obsSrc, solver, dirCreated, keyPressed, artifact, argsEnd>>

\* calibrateCamera, lines 137-171: one iteration of the detection loop.
ProcessImage ==
    /\ pc = "loop"
    /\ idx < Len(images)
    /\ LET readable == content[images[idx + 1]].readable
           sz == content[images[idx + 1]].size
           found == content[images[idx + 1]].found
           c == content[images[idx + 1]].shift
       IN
         IF ~readable
         THEN /\ idx' = ContinueLoop(idx, Len(images))
              /\ outcome' = Append(outcome, "unreadable")
              /\ UNCHANGED <<imageSize, imageSizeSet, objpoints, imgpoints, obsSrc>>
         ELSE /\ idx' = idx + 1
              /\ imageSize' = IF imageSizeSet THEN imageSize ELSE sz
              /\ imageSizeSet' = TRUE
              /\ IF found
                 THEN /\ objpoints' = Append(objpoints, objp)
                      /\ imgpoints' = Append(imgpoints, Corners(objp, c))
                      /\ outcome' = Append(outcome, "detected")
                      /\ obsSrc' = Append(obsSrc,
                                     [img |-> idx + 1, size |-> sz, c |-> c])
                 ELSE /\ outcome' = Append(outcome, "nodetect")
                      /\ UNCHANGED <<objpoints, imgpoints, obsSrc>>
    /\ UNCHANGED <<pc, argv, dirState, content, files, showDisplay, checkerboardSize, objp,
                   images, results, totalError, evalIdx, exitStatus, saveCalled,
                   artifactWritten, previewCalled, solver, dirCreated, keyPressed, artifact, argsEnd,
                   calibrateCalled>>

\* calibrateCamera, lines 173-183: the checks between the loop and the solver.
EndLoop ==
    /\ pc = "loop"
    /\ idx >= Len(images)
    /\ pc' = IF ~HasObservations(objpoints, imgpoints) THEN "returned"
             ELSE IF ~imageSizeSet THEN "returned"
             ELSE "solve"
    /\ UNCHANGED <<argv, dirState, content, files, showDisplay, checkerboardSize, objp, images,
                   idx, imageSize, imageSizeSet, objpoints, imgpoints, results,
                   totalError, evalIdx, exitStatus, saveCalled, artifactWritten,
                   previewCalled, outcome, obsSrc, solver, dirCreated, keyPressed, artifact, argsEnd,
                   calibrateCalled>>

\* What cv::calibrateCamera can do: throw cv::Exception, or fill one pose per
\* observation and return the RMS reprojection error.  The RMS is 0 only for
\* a perfect (hence converged) fit; any other return (converged, or cut off
\* by the iteration limit) is a positive number, here 1.
SolverReturns ==
    {[converged |-> TRUE, rms |-> 0],
     [converged |-> TRUE, rms |-> 1],
     [converged |-> FALSE, rms |-> 1]}

\* calibrateCamera, lines 185-199: the solver call and what follows it.
Solve ==
    /\ pc = "solve"
    /\ \/ /\ solver' = [calls |-> solver.calls + 1, atIdx |-> idx,
                        nObs |-> Len(objpoints), imageSize |-> imageSize,
                        outcome |-> "threw", converged |-> FALSE, rms |-> 0]
          /\ Exit(AbortStatus)
          /\ UNCHANGED <<results, totalError, evalIdx>>
       \/ \E ret \in SolverReturns,
             tv \in [1..Len(objpoints) -> 0..MaxPose] :
            LET ok == RmsToBool(ret.rms)
                rv == [k \in 1..Len(objpoints) |-> 0]
            IN  /\ solver' = [calls |-> solver.calls + 1, atIdx |-> idx,
                              nObs |-> Len(objpoints), imageSize |-> imageSize,
                              outcome |-> "returned",
                              converged |-> ret.converged, rms |-> ret.rms]
                /\ IF ~ok
                   THEN /\ results' = [results EXCEPT !.success = FALSE,
                                          !.rvecs = rv, !.tvecs = tv]
                        /\ pc' = "returned"
                   ELSE /\ results' = [results EXCEPT !.success = TRUE,
                                          !.rvecs = rv, !.tvecs = tv,
                                          !.imageSize = imageSize,
                                          !.numImagesUsed = Len(objpoints)]
                        /\ pc' = "eval"
                /\ totalError' = 0
                /\ evalIdx' = 0
                /\ UNCHANGED exitStatus
    /\ UNCHANGED <<argv, dirState, content, files, showDisplay, checkerboardSize, objp, images,
                   idx, imageSize, imageSizeSet, objpoints, imgpoints, saveCalled,
                   artifactWritten, previewCalled, outcome, obsSrc, dirCreated,
                   keyPressed, artifact, argsEnd,
                   calibrateCalled>>

\* calibrateCamera, lines 203-209: one iteration of the error loop.
EvalStep ==
    /\ pc = "eval"
    /\ evalIdx < Len(objpoints)
    /\ totalError' = Accumulate(totalError,
                        PerImageError(imgpoints[evalIdx + 1], objpoints[evalIdx + 1],
                                      results.rvecs[evalIdx + 1],
                                      results.tvecs[evalIdx + 1]))
    /\ evalIdx' = evalIdx + 1
    /\ UNCHANGED <<pc, argv, dirState, content, files, showDisplay, checkerboardSize, objp,
                   images, idx, imageSize, imageSizeSet, objpoints, imgpoints,
                   results, exitStatus, saveCalled, artifactWritten,
                   previewCalled, outcome, obsSrc, solver, dirCreated, keyPressed, artifact, argsEnd,
                   calibrateCalled>>

\* calibrateCamera, lines 210-213: the mean, then return.
EvalDone ==
    /\ pc = "eval"
    /\ evalIdx >= Len(objpoints)
    /\ results' = [results EXCEPT !.meanReprojectionError =
                                     MeanError(totalError, Len(objpoints))]
    /\ pc' = "returned"
    /\ UNCHANGED <<argv, dirState, content, files, showDisplay, checkerboardSize, objp, images,
                   idx, imageSize, imageSizeSet, objpoints, imgpoints, totalError,
                   evalIdx, exitStatus, saveCalled, artifactWritten,
                   previewCalled, outcome, obsSrc, solver, dirCreated, keyPressed, artifact, argsEnd,
                   calibrateCalled>>

\* main, lines 316-326: back from calibrateCamera.
AfterCalibration ==
    /\ pc = "returned"
    /\ IF results.success
       THEN pc' = "save" /\ UNCHANGED exitStatus
       ELSE Exit(ExitCode(results.success))
    /\ UNCHANGED <<argv, dirState, content, files, showDisplay, checkerboardSize, objp, images,
                   idx, imageSize, imageSizeSet, objpoints, imgpoints, results,
                   totalError, evalIdx, saveCalled, artifactWritten,
                   previewCalled, outcome, obsSrc, solver, dirCreated, keyPressed, artifact, argsEnd,
                   calibrateCalled>>

\* Where the output path may point: outside the image directory (NoFile), or
\* at an entry of it, old or new: the name the enumeration lists first
\* (2.jpg) or the one it lists after every jpg (1.png).
OutputTargets == {NoFile} \cup {f \in FileUniverse : f.name <= 2}

\* saveCalibrationResultsToJSON, lines 24-87, then main's showDisplay test.
\* A file opened inside the image directory is an entry of it from then on.
Save ==
    /\ pc = "save"
    /\ saveCalled' = TRUE
    /\ \E opened \in BOOLEAN, target \in OutputTargets :
         /\ artifactWritten' = opened
         /\ artifact' = IF opened THEN target ELSE NoFile
         /\ files' = IF opened /\ target # NoFile THEN files \cup {target}
                     ELSE files
         /\ results' = [results EXCEPT
                          !.success = SuccessAfterSave(results.success, opened)]
    /\ IF PreviewWanted(showDisplay)
       THEN pc' = "show" /\ UNCHANGED exitStatus
       ELSE Exit(ExitCode(results'.success))
    /\ UNCHANGED <<argv, dirState, content, showDisplay, checkerboardSize, objp, images,
                   idx, imageSize, imageSizeSet, objpoints, imgpoints, totalError,
                   evalIdx, previewCalled, outcome, obsSrc, solver, dirCreated,
                   keyPressed, argsEnd,
                   calibrateCalled>>

\* showUndistortedImage, lines 216-255: up to the two imshow calls.  The
\* directory is enumerated again and the first path of that list is read.
ShowUndistorted ==
    /\ pc = "show"
    /\ previewCalled' = TRUE
    /\ IF ~results.success
       THEN Exit(ExitCode(results.success))
       ELSE IF Len(GlobAll(files)) = 0
       THEN Exit(ExitCode(results.success))
       ELSE IF ~PreviewReadable(GlobAll(files)[1], artifact, content)
       THEN Exit(ExitCode(results.success))
       ELSE pc' = "waitKey" /\ UNCHANGED exitStatus
    /\ UNCHANGED <<argv, dirState, content, files, showDisplay, checkerboardSize, objp,
                   images, idx, imageSize, imageSizeSet, objpoints, imgpoints,
                   results, totalError, evalIdx, saveCalled, artifactWritten,
                   outcome, obsSrc, solver, dirCreated, keyPressed, artifact, argsEnd,
                   calibrateCalled>>

\* showUndistortedImage, lines 256-257: cv::waitKey(0) returns on a key press.
KeyPress ==
    /\ pc = "waitKey"
    /\ keyPressed' = TRUE
    /\ Exit(ExitCode(results.success))
    /\ UNCHANGED <<argv, dirState, content, files, showDisplay, checkerboardSize, objp, images,
                   idx, imageSize, imageSizeSet, objpoints, imgpoints, results,
                   totalError, evalIdx, saveCalled, artifactWritten,
                   previewCalled, outcome, obsSrc, solver, dirCreated, artifact, argsEnd,
                   calibrateCalled>>

Next ==
    \/ ParseArgs
    \/ CheckDir
    \/ StartCalibration
    \/ ProcessImage
    \/ EndLoop
    \/ Solve
    \/ EvalStep
    \/ EvalDone
    \/ AfterCalibration
    \/ Save
    \/ ShowUndistorted
    \/ KeyPress

Spec == Init /\ [][Next]_vars

\* ---- the same program over every checkerboard size -------------------------
\* Command lines whose -cw / -ch values std::stoi converts although they are
\* not plain one-digit numbers: two digits, a sign, white space, leading
\* zeros, trailing text; boards without any point among them.
SpelledLines ==
    TwoDigitLines \cup
    {<<"-i", "images", "-cw", "-1", "--no-display">>,
     <<"-i", "images", "-cw", "3x", "-ch", "2", "--no-display">>,
     <<"-cw", " 2", "-ch", "+2">>,
     <<"-cw", VerticalTab \o "3", "-ch", "\t2", "--no-display">>,
     <<"-cw", "002", "-ch", "0x2", "--no-display">>}

\* The command lines of SpecBoards: every board up to MaxDim x MaxDim, the
\* bare command (default board), and the lines above; all on directories of
\* BoardFiles.
ArgLinesBoards ==
    {BoardLine(w, h, d) : w \in 1..MaxDim, h \in 1..MaxDim, d \in BOOLEAN}
    \cup {<<>>} \cup SpelledLines \cup EndingLines

InitBoards ==
    /\ argv \in ArgLinesBoards
    /\ pc = "args"
    /\ dirState \in {"exists", "creatable", "uncreatable", "error"}
    /\ files \in SUBSET BoardFiles
    /\ (dirState # "exists" => files = {})
    /\ content \in [ImageFiles(files) -> FileContents]
    /\ showDisplay = ArgDefaults.showDisplay
    /\ checkerboardSize = [width |-> ArgDefaults.width, height |-> ArgDefaults.height]
    /\ objp = <<>>
    /\ images = <<>>
    /\ idx = 0
    /\ imageSize = ZeroSize
    /\ imageSizeSet = FALSE
    /\ objpoints = <<>>
    /\ imgpoints = <<>>
    /\ results = InitResults(ZeroSize)
    /\ totalError = 0
    /\ evalIdx = 0
    /\ exitStatus = 0
    /\ saveCalled = FALSE
    /\ artifactWritten = FALSE
    /\ previewCalled = FALSE
    /\ outcome = <<>>
    /\ obsSrc = <<>>
    /\ solver = NoSolver
    /\ dirCreated = FALSE
    /\ keyPressed = FALSE
    /\ artifact = NoFile
    /\ argsEnd = "none"
    /\ calibrateCalled = FALSE

SpecBoards == InitBoards /\ [][Next]_vars

\* ---- the same program on a directory of five images ----------------------
\* Five files that the patterns match: 2.jpg, 4.jpg, 7.jpeg, 1.png, 6.bmp in
\* the order of the enumeration.
FiveImages == {[name |-> n, ext |-> ExtOfName(n)] : n \in {1, 2, 4, 6, 7}}

\* What each of the five files may hold: nothing readable, an image of either
\* size without the board, a small image with the board unshifted, or a
\* large image with the board shifted.
FiveContents ==
    {Unreadable} \cup {NoBoard(sz) : sz \in ImageSizes}
    \cup {Board(SmallImage, 0), Board(LargeImage, 1)}

InitFive ==
    /\ argv = BoardLine(MaxBoard, 1, TRUE)
    /\ pc = "args"
    /\ dirState = "exists"
    /\ files = FiveImages
    /\ content \in [FiveImages -> FiveContents]
    /\ showDisplay = ArgDefaults.showDisplay
    /\ checkerboardSize = [width |-> ArgDefaults.width, height |-> ArgDefaults.height]
    /\ objp = <<>>
    /\ images = <<>>
    /\ idx = 0
    /\ imageSize = ZeroSize
    /\ imageSizeSet = FALSE
    /\ objpoints = <<>>
    /\ imgpoints = <<>>
    /\ results = InitResults(ZeroSize)
    /\ totalError = 0
    /\ evalIdx = 0
    /\ exitStatus = 0
    /\ saveCalled = FALSE
    /\ artifactWritten = FALSE
    /\ previewCalled = FALSE
    /\ outcome = <<>>
    /\ obsSrc = <<>>
    /\ solver = NoSolver
    /\ dirCreated = FALSE
    /\ keyPressed = FALSE
    /\ artifact = NoFile
    /\ argsEnd = "none"
    /\ calibrateCalled = FALSE

SpecFive == InitFive /\ [][Next]_vars

\* ---- vocabulary of the properties ----------------------------------------
Supported == {Patterns[p] : p \in 1..Len(Patterns)}

\* The directory holds no file any pattern matches.
NoImageFile == \A f \in files : f.ext \notin Supported

\* The detection loop has run to its end.
LoopOver == calibrateCalled /\ (pc = "loop" => idx >= Len(images))

\* Indices of the images that were read and in which the board was found.
DetectedIdx ==
    SelectSeq([i \in 1..Len(images) |-> i],
              LAMBDA i : i <= Len(outcome) /\ outcome[i] = "detected")

\* The solver failed: it threw, or it returned without having converged.
SolverFailed ==
    \/ solver.outcome = "threw"
    \/ solver.outcome = "returned" /\ ~solver.converged

FailedRun ==
    /\ dirExists
    /\ \/ NoImageFile
       \/ LoopOver /\ Len(DetectedIdx) = 0
       \/ SolverFailed

\* C1: with the image directory present, every run that finds no image file,
\* or detects the board in no image, or whose solver fails, never enters
\* saveCalibrationResultsToJSON, writes no artifact, never waits on the
\* preview, and ends with a non-zero exit status.
C1_FailureExitsNonZeroWithoutArtifact ==
    FailedRun =>
        /\ ~saveCalled
        /\ ~artifactWritten
        /\ pc \notin {"save", "show", "waitKey"}
        /\ (pc = "done" => exitStatus # 0)

\* The run never got into calibrateCamera, saved nothing, showed nothing.
NothingCalibrated ==
    /\ pc \in {"args", "main", "done"}
    /\ ~calibrateCalled
    /\ objp = <<>> /\ images = <<>> /\ outcome = <<>>
    /\ solver.calls = 0
    /\ ~saveCalled /\ ~artifactWritten /\ ~previewCalled

\* C2 as stated: every run that starts with the directory missing and
\* creatable creates it and ends with exit status 0, without entering
\* calibrateCamera and without an artifact.
C2_MissingDirAlwaysCreated ==
    dirState = "creatable" =>
        /\ NothingCalibrated
        /\ (pc = "done" => dirCreated /\ exitStatus = 0)

\* C2 as amended: no run on a missing, creatable directory enters
\* calibrateCamera or saves anything.  When the argument loop has run to argc,
\* main creates the directory and the run is over at once with exit status 0;
\* when the run ends inside the argument loop, the directory stays missing
\* and the exit status is 0 for the usage request, 1 for a rejected option,
\* and that of std::terminate for a value std::stoi refuses.  The directory
\* is created in no other run.
C2_CreatedDirExitsZero ==
    /\ dirState = "creatable" => NothingCalibrated
    /\ (dirState = "creatable" /\ pc = "done" /\ argsEnd = "ok") =>
          dirCreated /\ exitStatus = 0
    /\ (dirState = "creatable" /\ pc = "done" /\ argsEnd # "ok") =>
          /\ ~dirCreated
          /\ argsEnd = "help" => exitStatus = 0
          /\ argsEnd = "unknown" => exitStatus = 1
          /\ argsEnd = "badnum" => exitStatus = AbortStatus
    /\ dirCreated =>
          argsEnd = "ok" /\ dirState = "creatable" /\ pc = "done" /\ exitStatus = 0

C2_Witness ==
    /\ dirState = "creatable"
    /\ argsEnd = "ok"
    /\ dirCreated
    /\ pc = "done"
    /\ exitStatus = 0
    /\ NothingCalibrated

\* C3: whenever calibrateCamera has returned, the result holds as many rvecs
\* and as many tvecs as numImagesUsed, and numImagesUsed is the number of
\* observations accumulated in objpoints / imgpoints.
C3_PosesMatchImagesUsedOnEveryReturn ==
    pc = "returned" =>
        /\ Len(results.rvecs) = results.numImagesUsed
        /\ Len(results.tvecs) = results.numImagesUsed
        /\ results.numImagesUsed = Len(objpoints)
        /\ results.numImagesUsed = Len(imgpoints)

\* C4: once the detection loop is over, every enumerated image was processed,
\* and the correspondence set holds exactly one observation for each image
\* that was read and detected, in enumeration order, each paired with the
\* template; a successful result counts exactly those images.
C4_ObservationsAreDetectedSubsequence ==
    /\ (pc = "loop" => Len(outcome) = idx)
    /\ LoopOver =>
        LET det == DetectedIdx
        IN  /\ Len(outcome) = Len(images)
            /\ Len(imgpoints) = Len(det)
            /\ Len(objpoints) = Len(det)
            /\ Len(obsSrc) = Len(det)
            /\ \A k \in 1..Len(det) :
                 /\ obsSrc[k].img = det[k]
                 /\ imgpoints[k] = Corners(objp, obsSrc[k].c)
                 /\ objpoints[k] = objp
            /\ (results.success =>
                  /\ results.numImagesUsed = Len(det)
                  /\ Len(results.rvecs) = Len(det)
                  /\ Len(results.tvecs) = Len(det))

\* Five images, the board found in all but the third: four observations, four
\* poses, numImagesUsed = 4.
C4_Witness ==
    /\ pc = "done"
    /\ Len(images) = 5
    /\ outcome = <<"detected", "detected", "nodetect", "detected", "detected">>
    /\ results.success
    /\ results.numImagesUsed = 4
    /\ Len(results.rvecs) = 4 /\ Len(results.tvecs) = 4
    /\ Len(imgpoints) = 4

\* C5: results.success is true exactly when the solver ran on at least one
\* observation and converged, whatever number it returned; a run that ends
\* with exit status 0 after the solver ran carries success = true.
C5_SuccessIffSolverConverged ==
    /\ results.success <=>
         (solver.outcome = "returned" /\ solver.nObs >= 1 /\ solver.converged)
    /\ (pc = "done" /\ exitStatus = 0 /\ solver.calls > 0 => results.success)

\* C6: every observation handed to the solver comes from an image of the
\* size the solver is given, and a successful result records that size.
C6_ObservationsShareSolverImageSize ==
    solver.calls > 0 =>
        /\ \A k \in 1..Len(obsSrc) : obsSrc[k].size = solver.imageSize
        /\ (results.success => results.imageSize = solver.imageSize)

\* The error of observation i from its own points and its own pose.
ErrorOfImage(i) ==
    PerImageError(imgpoints[i], objp, results.rvecs[i], results.tvecs[i])

\* The errors of observations 1..n, each from its own points and pose.
ErrorsUpTo(n) == [i \in 1..n |-> ErrorOfImage(i)]

RECURSIVE SumSeq(_)
SumSeq(q) == IF Len(q) = 0 THEN 0 ELSE Head(q) + SumSeq(Tail(q))

CalibrationEvaluated ==
    /\ pc \in {"returned", "save", "show", "waitKey", "done"}
    /\ solver.outcome = "returned"
    /\ solver.rms # 0

\* --no-display was given, and it ends with exit status 0.
C8_WriteFailureKeepsSuccess ==
    (saveCalled /\ ~artifactWritten) =>
        /\ results.success
        /\ pc \in {"show", "waitKey", "done"}
        /\ (pc = "done" => exitStatus = 0)
        /\ (pc = "done" /\ showDisplay => previewCalled)
        /\ (pc = "show" => showDisplay)

C8_Witness ==
    /\ pc = "done"
    /\ saveCalled /\ ~artifactWritten
    /\ showDisplay /\ previewCalled /\ keyPressed
    /\ results.success
    /\ exitStatus = 0

\* C9 as stated: a preview is attempted only with the artifact written, and
\* the process never waits for an event from the display.
C9_NeverWaitsOnPreview ==
    /\ (previewCalled => artifactWritten)
    /\ pc # "waitKey"

\* The first path of the preview's own enumeration (made after the save) is
\* an image cv::imread can read.
PreviewImageReadable ==
    /\ Len(GlobAll(files)) > 0
    /\ PreviewReadable(GlobAll(files)[1], artifact, content)

\* C9 as amended: saveCalibrationResultsToJSON has returned (with or without a
\* file written) before any preview is attempted; with --no-display the
\* preview is never entered and the process never waits; without it, the
\* process waits in cv::waitKey(0) exactly when the calibration succeeded and
\* the first path the preview enumerates is a readable image (not the
\* artifact just written into the image directory), and such a run ends only
\* after a key press.
C9_WaitsOnlyWhenPreviewShown ==
    /\ (previewCalled \/ pc \in {"show", "waitKey"} => saveCalled)
    /\ (~showDisplay => ~previewCalled /\ pc \notin {"show", "waitKey"} /\ ~keyPressed)
    /\ (pc = "waitKey" =>
          showDisplay /\ results.success /\ PreviewImageReadable)
    /\ (pc = "done" /\ showDisplay /\ saveCalled =>
          (keyPressed <=> PreviewImageReadable))

C9_Witness ==
    /\ pc = "waitKey"
    /\ showDisplay
    /\ saveCalled /\ artifactWritten
    /\ artifact \in files
    /\ previewCalled

\* C10: the solver is called at most once, only when the detection loop has
\* processed every enumerated image, and, once the loop and its checks are
\* over, exactly when the correspondence set holds at least one observation;
\* a run with no observation ends non-zero without a solver call.
C10_SolverOnceAfterLoopIffObservations ==
    /\ solver.calls <= 1
    /\ (pc = "solve" \/ solver.calls = 1) =>
         /\ idx = Len(images)
         /\ Len(outcome) = Len(images)
         /\ Len(objpoints) >= 1
    /\ (solver.calls = 1 =>
         /\ solver.atIdx = Len(images)
         /\ solver.nObs = Len(DetectedIdx)
         /\ solver.nObs >= 1)
    /\ (pc \in {"eval", "returned", "save", "show", "waitKey", "done"} =>
         (solver.calls = 1 <=> Len(objpoints) >= 1))
    /\ (pc = "done" /\ calibrateCalled /\ Len(objpoints) = 0 =>
         solver.calls = 0 /\ exitStatus # 0)
    /\ (~calibrateCalled => solver.calls = 0)

C10_Witness ==
    /\ pc = "done"
    /\ Len(images) >= 2
    /\ solver.calls = 1
    /\ solver.nObs = 1
    /\ solver.atIdx = Len(images)

\* The object-point template has been filled.
TemplateBuilt == calibrateCalled

\* The point at index i * width + j (counted from 0) is (j, i, 0), and every
\* observation is paired with a copy of the template.
TemplateIsRowMajorGrid ==
    TemplateBuilt =>
        LET w == checkerboardSize.width
            h == checkerboardSize.height
        IN  /\ \A i \in 0..(h - 1) : \A j \in 0..(w - 1) :
                 objp[i * w + j + 1] = <<j, i, 0>>
            /\ Len(objpoints) = Len(imgpoints)
            /\ \A k \in 1..Len(objpoints) : objpoints[k] = objp

\* The template and every observation hold n points.
TemplateHolds(n) ==
    /\ Len(objp) = n
    /\ \A k \in 1..Len(imgpoints) : Len(imgpoints[k]) = n

\* Once built, the template and the copies already stored stay as they are.
TemplateKept ==
    TemplateBuilt =>
        /\ objp' = objp
        /\ checkerboardSize' = checkerboardSize
        /\ Len(objpoints') >= Len(objpoints)
        /\ \A k \in 1..Len(objpoints) : objpoints'[k] = objpoints[k]

\* C11 as stated: for whatever width w and height h the run is given, the
\* template holds exactly w*h points, the point at index i*w + j is (j, i, 0),
\* every observation is paired with an identical copy of it, and no step
\* changes the template or a stored copy after it is built.
C11_TemplateHoldsWidthTimesHeight ==
    /\ [](TemplateBuilt =>
            TemplateHolds(checkerboardSize.width * checkerboardSize.height))
    /\ []TemplateIsRowMajorGrid
    /\ [][TemplateKept]_vars

\* C11 as amended: the template holds exactly w*h points when neither w nor h
\* is negative and no point when one of them is; the point at index i*w + j
\* (0 <= i < h, 0 <= j < w) is (j, i, 0), every observation of the
\* correspondence set is paired with an identical copy of it, and no step
\* changes the template or a stored copy after it is built.
C11_TemplateRowMajorAndImmutable ==
    /\ [](TemplateBuilt =>
            TemplateHolds(IF checkerboardSize.width >= 0 /\ checkerboardSize.height >= 0
                          THEN checkerboardSize.width * checkerboardSize.height
                          ELSE 0))
    /\ []TemplateIsRowMajorGrid
    /\ [][TemplateKept]_vars

C11_Witness ==
    /\ pc = "done"
    /\ checkerboardSize = [width |-> 3, height |-> 2]
    /\ Len(objp) = 6
    /\ objp[5] = <<1, 1, 0>>
    /\ Len(objpoints) = 2
    /\ objpoints[1] = objp /\ objpoints[2] = objp

TypeOK ==
    /\ pc \in {"args", "main", "calibrate", "loop", "solve", "eval", "returned", "save",
               "show", "waitKey", "done"}
    /\ idx \in 0..Len(images)
    /\ Len(objpoints) = Len(imgpoints)
    /\ DOMAIN content = ImageFiles(DOMAIN content)
    /\ \A f \in DOMAIN content : content[f] \in FileContents
====
